---- MODULE Spec2Model ----
(***************************************************************************)
(* Query construction and response normalisation over the flights index:   *)
(* ElasticsearchQueryBuilder (elasticsearch_queries.py) and the catalog    *)
(* FlightDataQueries (script.py).                                          *)
(*                                                                         *)
(* Encoding of Python values.  A dict is a function with a string domain   *)
(* ({} is the empty function <<>>).  Every other value is a pair           *)
(* <<type, value>>, and None is the one-element tuple <<"NoneType">>, so   *)
(* that None, numbers, strings, booleans and lists can meet under one key. *)
(***************************************************************************)
EXTENDS Integers, Sequences, FiniteSets, TLC

VARIABLES
    pc,         \* "idle": no call in progress; "called": build_query entered;
                \* "searching": inside es.search
    method,     \* the entry point of the current (or last) call
    query_type, \* build_query's query_type argument
    given,      \* the params argument as the caller built it
    params,     \* the caller's params object as it stands now
    submitted,  \* the es.search calls issued by the current (or last) call
    response,   \* what es.search did for the current (or last) call
    result,     \* what the current (or last) call gave its caller
    first,      \* one earlier call and the request it submitted
    wait_pc,    \* _wait_for_elasticsearch: "test" (at the while condition),
                \* "ping" (in the try block), "returned" (True), "raised"
    elapsed,    \* time.time() - start_time, in seconds
    last_ping,  \* what the latest es.ping() did: "none", "true", "false", "raise"
    query_builder, \* whether ElasticsearchSetup.__init__ has created its builder
    app,        \* the module flight_delay_api: "unloaded", "importing",
                \* "failed" (its import raised), "serving"
    http        \* the answer to the latest GET /flights/delay-analysis

query_vars == <<pc, method, query_type, given, params, submitted, response, result, first>>
setup_vars == <<wait_pc, elapsed, last_ping, query_builder>>
api_vars == <<app, http>>
vars == <<query_vars, setup_vars, api_vars>>

---------------------------------------------------------------------------
(* Python values *)

None == <<"NoneType">>
PyInt(v) == <<"int", v>>
PyStr(v) == <<"str", v>>
PyBool(v) == <<"bool", v>>
PyList(v) == <<"list", v>>
PyDict(v) == <<"dict", v>>
EmptyDict == <<>>

\* bool(params) at "if params:": None and {} are falsy
Truthy(p) == p # None /\ DOMAIN p[2] # {}

---------------------------------------------------------------------------
(* Bounds of the model *)

MaxClauses == 1     \* longest clause list a raw caller supplies
MaxHits == 2        \* longest hit list the backend returns

---------------------------------------------------------------------------
(* The strategy table of build_query *)

DefaultSize == 10
AggsDefaultSize == 0

QueryTypes == {"match_all", "term", "match", "range", "bool", "aggs", "sort"}

\* the parameter names of each lambda
StrategyParams(kind) ==
    CASE kind = "match_all" -> {"size"}
      [] kind = "term"      -> {"field", "value", "size"}
      [] kind = "match"     -> {"field", "value", "size"}
      [] kind = "range"     -> {"field", "gte", "lte", "size"}
      [] kind = "bool"      -> {"must", "must_not", "should", "filter", "size"}
      [] kind = "aggs"      -> {"aggs_type", "field", "size"}
      [] kind = "sort"      -> {"field", "order", "size"}

\* the parameters of each lambda that have a default, with the default
StrategyDefaults(kind) ==
    CASE kind = "match_all" -> [size |-> PyInt(DefaultSize)]
      [] kind = "term"      -> [size |-> PyInt(DefaultSize)]
      [] kind = "match"     -> [size |-> PyInt(DefaultSize)]
      [] kind = "range"     -> [gte |-> None, lte |-> None, size |-> PyInt(DefaultSize)]
      [] kind = "bool"      -> [must |-> None, must_not |-> None, should |-> None,
                                filter |-> None, size |-> PyInt(DefaultSize)]
      [] kind = "aggs"      -> [size |-> PyInt(AggsDefaultSize)]
      [] kind = "sort"      -> [order |-> PyStr("desc"), size |-> PyInt(DefaultSize)]

StrategyRequired(kind) == StrategyParams(kind) \ DOMAIN StrategyDefaults(kind)

\* str(e) of the TypeError a lambda call raises (the qualified name of the
\* lambda and the offending argument names are left out of the text)
UnexpectedKeyword == "<lambda>() got an unexpected keyword argument"
MissingArgument == "<lambda>() missing required positional argument"

\* calling query_strategies[kind](**kwargs): keywords are matched first,
\* then the missing positionals are reported
CallError(kind, kwargs) ==
    IF ~(DOMAIN kwargs \subseteq StrategyParams(kind)) THEN UnexpectedKeyword
    ELSE IF ~(StrategyRequired(kind) \subseteq DOMAIN kwargs) THEN MissingArgument
    ELSE ""

\* the lambda's local names after a successful call
Bind(kind, kwargs) ==
    [k \in StrategyParams(kind) |->
        IF k \in DOMAIN kwargs THEN kwargs[k] ELSE StrategyDefaults(kind)[k]]

\* {k: v for k, v in d.items() if v is not None}
DropNone(d) == [k \in {j \in DOMAIN d : d[j] # None} |-> d[k]]

\* as match_all, built on the request document of the call before
match_all_shared(a) ==
    [size |-> a.size, query |-> [match_all |-> EmptyDict]]
    @@ (IF submitted = <<>> THEN EmptyDict ELSE submitted[1].body)

match_all(a) == [size |-> a.size, query |-> [match_all |-> EmptyDict]]

\* as term, with the analysed predicate of the match strategy
term_as_match(a) == [size |-> a.size, query |-> [match |-> (a.field[2] :> a.value)]]

term(a) == [size |-> a.size, query |-> [term |-> (a.field[2] :> a.value)]]

match(a) == [size |-> a.size, query |-> [match |-> (a.field[2] :> a.value)]]

\* as range, with the bounds passed on as they are
range_keep_none(a) ==
    [size |-> a.size,
     query |-> [range |-> (a.field[2] :> [gte |-> a.gte, lte |-> a.lte])]]

range(a) ==
    [size |-> a.size,
     query |-> [range |-> (a.field[2] :> DropNone([gte |-> a.gte, lte |-> a.lte]))]]

\* {k: v for k, v in d.items() if v}
DropFalsy(d) == [k \in {j \in DOMAIN d : d[j] # None /\ d[j] # PyList(<<>>)} |-> d[k]]

\* as bool, with the clause lists filtered on truthiness
bool_drop_falsy(a) ==
    [size |-> a.size,
     query |-> [bool |-> DropFalsy([must |-> a.must, must_not |-> a.must_not,
                                    should |-> a.should, filter |-> a.filter])]]

bool(a) ==
    [size |-> a.size,
     query |-> [bool |-> DropNone([must |-> a.must, must_not |-> a.must_not,
                                   should |-> a.should, filter |-> a.filter])]]

\* as aggs, with the aggregation named "<field>_on_<aggs_type>"
aggs_renamed(a) ==
    [size |-> a.size,
     aggs |-> ((a.field[2] \o "_on_" \o a.aggs_type[2]) :>
        [terms |-> IF a.aggs_type = PyStr("terms") THEN [field |-> a.field] ELSE EmptyDict,
         aggs |-> [avg_value |-> IF a.aggs_type = PyStr("avg")
                                 THEN [avg |-> [field |-> a.field]]
                                 ELSE EmptyDict]])]

aggs(a) ==
    [size |-> a.size,
     aggs |-> ((a.aggs_type[2] \o "_on_" \o a.field[2]) :>
        [terms |-> IF a.aggs_type = PyStr("terms") THEN [field |-> a.field] ELSE EmptyDict,
         aggs |-> [avg_value |-> IF a.aggs_type = PyStr("avg")
                                 THEN [avg |-> [field |-> a.field]]
                                 ELSE EmptyDict]])]

sort(a) ==
    [size |-> a.size,
     sort |-> PyList(<<(a.field[2] :> [order |-> a.order])>>)]

query_strategies(kind, a) ==
    CASE kind = "match_all" -> match_all(a)
      [] kind = "term"      -> term(a)
      [] kind = "match"     -> match(a)
      [] kind = "range"     -> range(a)
      [] kind = "bool"      -> bool(a)
      [] kind = "aggs"      -> aggs(a)
      [] kind = "sort"      -> sort(a)

---------------------------------------------------------------------------
(* build_query up to the search call *)

index_name == "kibana_sample_data_flights"

\* as WithSize, with the default taken for any falsy size:
\* params.get('size') or 10
WithSize_falsy(d) ==
    [k \in DOMAIN d \cup {"size"} |->
        IF k = "size"
        THEN (IF "size" \in DOMAIN d /\ d["size"] # PyInt(0)
              THEN d["size"] ELSE PyInt(DefaultSize))
        ELSE d[k]]

\* size = params.pop('size', 10); params['size'] = size
WithSize(d) ==
    [k \in DOMAIN d \cup {"size"} |->
        IF k = "size"
        THEN (IF "size" \in DOMAIN d THEN d["size"] ELSE PyInt(DefaultSize))
        ELSE d[k]]

\* the keyword arguments the strategy is called with
Keywords(p) == IF Truthy(p) THEN WithSize(p[2]) ELSE EmptyDict

\* as ParamsAfter, with the popped size never put back
ParamsAfter_popped(p) ==
    IF Truthy(p) THEN PyDict([k \in DOMAIN p[2] \ {"size"} |-> p[2][k]]) ELSE p

\* the caller's params object once the try block is through with it
ParamsAfter(p) == IF Truthy(p) THEN PyDict(WithSize(p[2])) ELSE p

\* as except_handler, with the exception raised again
except_handler_reraise(exc) == exc

\* except Exception as e: return {"error": str(e)}
except_handler(exc) == <<"return", [error |-> PyStr(exc[3])]>>

\* as Strategy, with an unknown kind served by the first strategy of the table
Strategy_fallback(kind) ==
    <<"return", IF kind \in QueryTypes THEN kind ELSE "match_all">>

\* the unguarded validation of query_type: the strategy the call goes on
\* with, or the ValueError it raises
Strategy(kind) ==
    IF kind \notin QueryTypes
    THEN <<"raise", "ValueError", "Unsupported query type: " \o kind>>
    ELSE <<"return", kind>>

\* the first half of the try block: the request document, or the exception
BuildRequest(kind, p) ==
    LET kwargs == Keywords(p)
        err == CallError(kind, kwargs)
    IN  IF err # "" THEN <<"raise", "TypeError", err>>
        ELSE <<"return", query_strategies(kind, Bind(kind, kwargs))>>

---------------------------------------------------------------------------
(* _format_response *)

KeyError(k) == <<"raise", "KeyError", "'" \o k \o "'">>

NoBody == <<"raise", "AttributeError", "'NoneType' object has no attribute 'body'">>

\* as Sources, newest first
Sources_reversed(hits) == [i \in 1..Len(hits) |-> hits[Len(hits) + 1 - i]["_source"]]

\* [hit["_source"] for hit in hits]
Sources(hits) == [i \in 1..Len(hits) |-> hits[i]["_source"]]

\* formatted_results["hits"]: [] unless the response has the inner hit list
FormattedHits(response_dict) ==
    IF "hits" \in DOMAIN response_dict["hits"]
    THEN PyList(Sources(response_dict["hits"]["hits"][2]))
    ELSE PyList(<<>>)

\* as FormattedAggregations, with response_dict.get("aggregations", {})
FormattedAggregations_always(response_dict) ==
    IF "aggregations" \in DOMAIN response_dict
    THEN [aggregations |-> response_dict["aggregations"]]
    ELSE [aggregations |-> EmptyDict]

\* the "aggregations" entry of formatted_results, if it gets one
FormattedAggregations(response_dict) ==
    IF "aggregations" \in DOMAIN response_dict
    THEN [aggregations |-> response_dict["aggregations"]]
    ELSE EmptyDict

format_response(resp) ==
    IF resp = None THEN NoBody
    ELSE LET response_dict == resp[2] IN
        IF "hits" \notin DOMAIN response_dict THEN KeyError("hits")
        ELSE IF "total" \notin DOMAIN response_dict["hits"] THEN KeyError("total")
        ELSE IF "took" \notin DOMAIN response_dict THEN KeyError("took")
        ELSE IF /\ "hits" \in DOMAIN response_dict["hits"]
                /\ \E i \in 1..Len(response_dict["hits"]["hits"][2]) :
                      "_source" \notin DOMAIN response_dict["hits"]["hits"][2][i]
             THEN KeyError("_source")
        ELSE <<"return",
               [total_hits |-> response_dict["hits"]["total"]["value"],
                took_ms |-> response_dict["took"],
                hits |-> FormattedHits(response_dict)]
               @@ FormattedAggregations(response_dict)>>

\* the second half of the try block, given what es.search did
Finish(outcome) ==
    IF outcome[1] = "raise" THEN except_handler(outcome)
    ELSE LET f == format_response(outcome[2])
         IN  IF f[1] = "raise" THEN except_handler(f) ELSE f

---------------------------------------------------------------------------
(* The state machine of one ElasticsearchQueryBuilder *)

NoCall == <<>>

Init ==
    /\ pc = "idle"
    /\ method = ""
    /\ query_type = ""
    /\ given = None
    /\ params = None
    /\ submitted = <<>>
    /\ response = <<"none">>
    /\ result = <<"none">>
    /\ first = NoCall
    /\ wait_pc = "returned"
    /\ elapsed = 0
    /\ last_ping = "true"
    /\ query_builder = TRUE
    /\ app = "unloaded"
    /\ http = <<"none">>

\* as Search, with the search issued a second time
Search_retry(query) ==
    <<[index |-> index_name, body |-> query], [index |-> index_name, body |-> query]>>

\* self.es.search(index=self.index_name, body=query): the searches of one call
Search(query) == <<[index |-> index_name, body |-> query]>>

\* build_query(kind, p), entered through m, up to its return or its search call
Run(m, kind, p) ==
    /\ method' = m
    /\ query_type' = kind
    /\ given' = p
    /\ response' = <<"none">>
    /\ first' = first
    /\ UNCHANGED <<setup_vars, api_vars>>
    /\ IF Strategy(kind)[1] = "raise"
       THEN /\ params' = p
            /\ submitted' = <<>>
            /\ result' = Strategy(kind)
            /\ pc' = "idle"
       ELSE /\ params' = ParamsAfter(p)
            /\ IF BuildRequest(Strategy(kind)[2], p)[1] = "raise"
               THEN /\ submitted' = <<>>
                    /\ result' = except_handler(BuildRequest(Strategy(kind)[2], p))
                    /\ pc' = "idle"
               ELSE /\ submitted' = Search(BuildRequest(Strategy(kind)[2], p)[2])
                    /\ result' = <<"running">>
                    /\ pc' = "searching"

\* a caller that is idle makes the call
Call(m, kind, p) == pc = "idle" /\ Run(m, kind, p)

\* self.es.search(...) comes back with outcome o; the call formats and returns
SearchDone(o) ==
    /\ pc = "searching"
    /\ response' = o
    /\ result' = Finish(o)
    /\ pc' = "idle"
    /\ UNCHANGED <<method, query_type, given, params, submitted, first>>
    /\ UNCHANGED <<setup_vars, api_vars>>

---------------------------------------------------------------------------
(* The backend: what es.search can do *)

SeqsUpTo(S, n) == UNION {[1..k -> S] : k \in 0..n}

Docs == {[Carrier |-> PyStr("ES-Air")], [Carrier |-> PyStr("JetBeats")]}
Hit(doc) == ("_index" :> PyStr(index_name)) @@ ("_source" :> doc)
HitLists == SeqsUpTo({Hit(d) : d \in Docs}, MaxHits)
Tooks == {3, 7}
Beyond == {0, 1}    \* matches the backend counts beyond the hits it returns
AggregationBlocks == {[avg_delay |-> [value |-> PyInt(47)]]}

\* response bodies with every key _format_response reads
WellFormed ==
    LET outer == {[took |-> PyInt(t)] : t \in Tooks}
        inner == {[total |-> [value |-> PyInt(Len(h) + n)], hits |-> PyList(h)] :
                      h \in HitLists, n \in Beyond}
                 \cup {[total |-> [value |-> PyInt(n)]] : n \in Beyond}
        blocks == {EmptyDict} \cup {[aggregations |-> a] : a \in AggregationBlocks}
    IN  {o @@ [hits |-> i] @@ b : o \in outer, i \in inner, b \in blocks}

\* response bodies that lack a key _format_response reads
Malformed ==
    { [took |-> PyInt(3)],
      [hits |-> [total |-> [value |-> PyInt(0)], hits |-> PyList(<<>>)]],
      [took |-> PyInt(3), hits |-> [hits |-> PyList(<<>>)]],
      [took |-> PyInt(3),
       hits |-> [total |-> [value |-> PyInt(1)],
                 hits |-> PyList(<<("_index" :> PyStr(index_name))>>)]] }

ApiResponse(b) == <<"ObjectApiResponse", b>>

SearchRaises ==
    { <<"raise", "ConnectionError", "Connection refused">>,
      <<"raise", "BadRequestError", "BadRequestError(400, 'parsing_exception')">> }

SearchOutcomes ==
    SearchRaises \cup {<<"return", None>>}
    \cup {<<"return", ApiResponse(b)>> : b \in WellFormed \cup Malformed}

es_search == \E o \in SearchOutcomes : SearchDone(o)

---------------------------------------------------------------------------
(* Callers of build_query *)

Sizes == {0, 5}
Clauses == {[term |-> [Cancelled |-> PyBool(TRUE)]]}

\* the values a raw caller supplies under each key
Vals(k) ==
    CASE k = "size" -> {PyInt(n) : n \in Sizes}
      [] k = "field" -> {PyStr("AvgTicketPrice")}
      [] k = "value" -> {PyStr("ES-Air")}
      [] k \in {"gte", "lte"} -> {None, PyInt(200), PyInt(400)}
      [] k \in {"must", "must_not", "should", "filter"} ->
            {None} \cup {PyList(c) : c \in SeqsUpTo(Clauses, MaxClauses)}
      [] k = "aggs_type" -> {PyStr("terms"), PyStr("avg")}
      [] k = "order" -> {PyStr("asc")}
      [] k = "aggs" -> {PyBool(TRUE)}

\* every dict over a subset of the keys K
RECURSIVE Maps(_)
Maps(K) ==
    IF K = {} THEN {EmptyDict}
    ELSE LET k == CHOOSE x \in K : TRUE
             rest == Maps(K \ {k})
         IN  rest \cup {(k :> v) @@ m : v \in Vals(k), m \in rest}

\* the keys a raw caller may pass with each kind: the lambda's own, and "aggs"
RawKeys(kind) ==
    IF kind \in QueryTypes THEN StrategyParams(kind) \cup {"aggs"} ELSE {"field", "size"}

RawParams(kind) == {None} \cup {PyDict(m) : m \in Maps(RawKeys(kind))}

Kinds == QueryTypes \cup {"nonexistent"}

\* the raw calls made between catalog calls: params over "field" and "size"
FewParams == {None} \cup {PyDict(m) : m \in Maps({"field", "size"})}

build_query == \E kind \in Kinds : \E p \in FewParams : Call("build_query", kind, p)

\* the raw calls on any kind and any params
RawCalls == UNION {{<<"build_query", kind, p>> : p \in RawParams(kind)} : kind \in Kinds}

---------------------------------------------------------------------------
(* FlightDataQueries: the catalog *)

Carriers == {"ES-Air", "JetBeats"}
Cities == {"Adelaide"}
Prices == {200, 400}
Distances == {5000}
Dates == {"2024-01-01", "2024-01-31"}
Orders == {"asc", "desc"}
Weathers == {"Sunny", "Rain"}
Delays == {40, 60}
CatalogSizes == {5, DefaultSize}

\* each method's call of build_query: <<method, query_type, params>>

get_all_flights == <<"get_all_flights", "match_all", None>>

filter_by_carrier(carrier, size) ==
    <<"filter_by_carrier", "term",
      PyDict([field |-> PyStr("Carrier"), value |-> PyStr(carrier), size |-> PyInt(size)])>>

search_by_origin_city(city, size) ==
    <<"search_by_origin_city", "match",
      PyDict([field |-> PyStr("OriginCityName"), value |-> PyStr(city),
              size |-> PyInt(size)])>>

filter_by_price_range(min_price, max_price, size) ==
    <<"filter_by_price_range", "range",
      PyDict([field |-> PyStr("AvgTicketPrice"), gte |-> PyInt(min_price),
              lte |-> PyInt(max_price), size |-> PyInt(size)])>>

avg_price_per_carrier ==
    <<"avg_price_per_carrier", "aggs",
      PyDict([aggs_type |-> PyStr("terms"), field |-> PyStr("Carrier")])>>

find_long_distance_flight(distance_len) ==
    <<"find_long_distance_flight", "range",
      PyDict([field |-> PyStr("DistanceKilometers"), gte |-> PyInt(distance_len)])>>

flight_on_specific_date(date) ==
    <<"flight_on_specific_date", "term",
      PyDict([field |-> PyStr("timestamp"), value |-> PyStr(date)])>>

flight_within_date_range(start_date, end_date) ==
    <<"flight_within_date_range", "range",
      PyDict([field |-> PyStr("timestamp"), gte |-> PyStr(start_date),
              lte |-> PyStr(end_date)])>>

avg_tckt_price_by_carrier ==
    <<"avg_tckt_price_by_carrier", "aggs",
      PyDict([aggs_type |-> PyStr("terms"), field |-> PyStr("Carrier")])>>

total_flight_per_destination ==
    <<"total_flight_per_destination", "aggs",
      PyDict([aggs_type |-> PyStr("terms"), field |-> PyStr("DestCountry")])>>

sort_by_ticket_price(order) ==
    <<"sort_by_ticket_price", "sort",
      PyDict([field |-> PyStr("AvgTicketPrice"), order |-> PyStr(order)])>>

first_ten_flights_by_duration ==
    <<"first_ten_flights_by_duration", "sort",
      PyDict([field |-> PyStr("FlightTimeMin"), order |-> PyStr("asc")])>>

filter_by_multiple_criteria(carrier, origin_city, dest_city) ==
    <<"filter_by_multiple_criteria", "bool",
      PyDict([must |-> PyList(<<[term |-> [Carrier |-> PyStr(carrier)]],
                                [match |-> [OriginCityName |-> PyStr(origin_city)]],
                                [match |-> [DestCityName |-> PyStr(dest_city)]]>>)])>>

exclude_canceled_flights_with_delay(delay_minutes) ==
    <<"exclude_canceled_flights_with_delay", "bool",
      PyDict([must_not |-> PyList(<<[term |-> [Cancelled |-> PyBool(TRUE)]]>>),
              filter |-> PyList(<<[range |->
                  [FlightDelayMin |-> [gt |-> PyInt(delay_minutes)]]]>>)])>>

flights_with_weather_conditions(origin_weather, dest_weather) ==
    <<"flights_with_weather_conditions", "bool",
      PyDict([should |-> PyList(<<[match |-> [OriginWeather |-> PyStr(origin_weather)]],
                                  [match |-> [DestWeather |-> PyStr(dest_weather)]]>>)])>>

delayed_flight_analysis(min_delay) ==
    <<"delayed_flight_analysis", "range",
      PyDict([field |-> PyStr("FlightDelayMin"), gte |-> PyInt(min_delay),
              size |-> PyInt(0), aggs |-> PyBool(TRUE)])>>

\* the catalog calls a caller makes, over the sample arguments
CatalogCalls ==
    {get_all_flights, avg_price_per_carrier, avg_tckt_price_by_carrier,
     total_flight_per_destination, first_ten_flights_by_duration}
    \cup {filter_by_carrier(c, n) : c \in Carriers, n \in CatalogSizes}
    \cup {search_by_origin_city(c, n) : c \in Cities, n \in CatalogSizes}
    \cup {filter_by_price_range(a, b, n) : a \in Prices, b \in Prices, n \in CatalogSizes}
    \cup {find_long_distance_flight(d) : d \in Distances}
    \cup {flight_on_specific_date(d) : d \in Dates}
    \cup {flight_within_date_range(a, b) : a \in Dates, b \in Dates}
    \cup {sort_by_ticket_price(o) : o \in Orders}
    \cup {filter_by_multiple_criteria(c, a, b) : c \in Carriers, a \in Cities, b \in Cities}
    \cup {exclude_canceled_flights_with_delay(d) : d \in Delays}
    \cup {flights_with_weather_conditions(a, b) : a \in Weathers, b \in Weathers}
    \cup {delayed_flight_analysis(d) : d \in Delays}

\* a caller invokes a catalog method
catalog == \E c \in CatalogCalls : Call(c[1], c[2], c[3])

---------------------------------------------------------------------------
(* Specification: any sequence of calls, each search answered in any way *)

Next == catalog \/ build_query \/ es_search

Spec == Init /\ [][Next]_vars

(* Specification: one call that has just been entered, a catalog call or a
   raw call on any kind and any params *)

InitCalled ==
    /\ pc = "called"
    /\ \E c \in CatalogCalls \cup RawCalls :
          method = c[1] /\ query_type = c[2] /\ given = c[3]
    /\ params = given
    /\ submitted = <<>>
    /\ response = <<"none">>
    /\ result = <<"running">>
    /\ first = NoCall
    /\ wait_pc = "returned"
    /\ elapsed = 0
    /\ last_ping = "true"
    /\ query_builder = TRUE
    /\ app = "unloaded"
    /\ http = <<"none">>

build_query_body == pc = "called" /\ Run(method, query_type, given)

NextOneCall == build_query_body \/ es_search

SpecOneCall == InitCalled /\ [][NextOneCall]_vars

(* Specification: sequences of calls in which an observer notes, now and
   then, a call that has returned and the request it had submitted *)

Remember ==
    /\ pc = "idle"
    /\ submitted # <<>>
    /\ first' = <<method, query_type, given, submitted[1]>>
    /\ UNCHANGED <<pc, method, query_type, given, params, submitted, response, result>>
    /\ UNCHANGED <<setup_vars, api_vars>>

\* the raw calls of these sequences
build_query_few ==
    \E kind \in {"match_all", "sort", "nonexistent"} : \E p \in FewParams :
        Call("build_query", kind, p)

\* the backend of these sequences: down, or up with nothing to report
FewOutcomes ==
    { <<"raise", "ConnectionError", "Connection refused">>,
      <<"return", ApiResponse([took |-> PyInt(3),
                               hits |-> [total |-> [value |-> PyInt(0)],
                                         hits |-> PyList(<<>>)]])>> }

es_search_few == \E o \in FewOutcomes : SearchDone(o)

NextIdem == catalog \/ build_query_few \/ es_search_few \/ Remember

SpecIdem == Init /\ [][NextIdem]_vars

---------------------------------------------------------------------------
(* ElasticsearchSetup and the module flight_delay_api *)

timeout == 300          \* _wait_for_elasticsearch(self, timeout=300)
SleepSeconds == 5       \* time.sleep(5)
MaxPingSeconds == 1     \* the longest an es.ping() takes to answer

PingOutcomes == {"true", "false", "raise"}

\* while time.time() - start_time < timeout
wait_test ==
    /\ wait_pc = "test"
    /\ wait_pc' = IF elapsed < timeout THEN "ping" ELSE "raised"
    /\ UNCHANGED <<elapsed, last_ping, query_builder, api_vars, query_vars>>

\* as AfterPing, with success reported whatever the ping did
AfterPing_hopeful(outcome) == "returned"

\* the try block after es.ping(): return True, or go on to time.sleep(5)
AfterPing(outcome) == IF outcome = "true" THEN "returned" ELSE "sleep"

\* self.es.ping() answers, d seconds on
wait_ping ==
    /\ wait_pc = "ping"
    /\ \E outcome \in PingOutcomes, d \in 0..MaxPingSeconds :
          /\ last_ping' = outcome
          /\ elapsed' = elapsed + d
          /\ wait_pc' = AfterPing(outcome)
    /\ UNCHANGED <<query_builder, api_vars, query_vars>>

\* time.sleep(5), in the try block and in the except block alike
wait_sleep ==
    /\ wait_pc = "sleep"
    /\ elapsed' = elapsed + SleepSeconds
    /\ wait_pc' = "test"
    /\ UNCHANGED <<last_ping, query_builder, api_vars, query_vars>>

\* ElasticsearchSetup.__init__ after the wait: the query builder
create_query_builder ==
    /\ wait_pc = "returned"
    /\ ~query_builder
    /\ query_builder' = TRUE
    /\ UNCHANGED <<wait_pc, elapsed, last_ping, api_vars, query_vars>>

\* FlightDataQueries.__init__(self, es_client, index_name), called with
\* nargs positional arguments
FlightDataQueries(nargs) ==
    IF nargs < 2
    THEN <<"raise", "TypeError",
           "FlightDataQueries.__init__() missing 1 required positional argument: 'index_name'">>
    ELSE <<"return", "FlightDataQueries">>

\* flight_queries = FlightDataQueries(setup.es)
flight_queries == FlightDataQueries(1)

\* the rest of the import of flight_delay_api, once ElasticsearchSetup() has
\* returned or raised: the module serves when no statement of it raised
api_load ==
    /\ app = "importing"
    /\ \/ wait_pc = "raised" /\ app' = "failed"
       \/ /\ wait_pc = "returned" /\ query_builder
          /\ app' = IF flight_queries[1] = "raise" THEN "failed" ELSE "serving"
    /\ UNCHANGED <<http, setup_vars, query_vars>>

\* the min_delay arguments of the requests made; None when there is none
Args == {None, PyStr("60"), PyStr("soon")}

Numerals == ("40" :> 40) @@ ("60" :> 60)

\* int(x)
int(x) ==
    IF x[1] = "int" THEN <<"return", x>>
    ELSE IF x[2] \in DOMAIN Numerals THEN <<"return", PyInt(Numerals[x[2]])>>
    ELSE <<"raise", "ValueError",
           "invalid literal for int() with base 10: '" \o x[2] \o "'">>

\* request.args.get('min_delay', 40)
min_delay_arg(arg) == IF arg = None THEN PyInt(40) ELSE arg

\* flight_queries.delay_flight_analysis(min_delay): the class defines
\* delayed_flight_analysis and no method of this name
delay_flight_analysis(min_delay) ==
    <<"raise", "AttributeError",
      "'FlightDataQueries' object has no attribute 'delay_flight_analysis'">>

\* the view function: status and JSON body
flight_delay_analysis(arg) ==
    LET min_delay == int(min_delay_arg(arg))
        results == delay_flight_analysis(min_delay[2])
    IN  IF min_delay[1] = "raise" THEN <<"response", 400, [error |-> PyStr(min_delay[3])]>>
        ELSE IF results[1] = "raise" THEN <<"response", 400, [error |-> PyStr(results[3])]>>
        ELSE <<"response", 200, results[2]>>

\* GET /flights/delay-analysis, once the import is over: the view answers
\* if the module serves, and nothing listens if its import raised
http_get ==
    /\ app # "importing"
    /\ \E arg \in Args :
          http' = IF app = "serving" THEN flight_delay_analysis(arg) ELSE <<"refused">>
    /\ UNCHANGED <<app, setup_vars, query_vars>>

(* Specification: the import of flight_delay_api from its first statement
   on, setup = ElasticsearchSetup(), and the requests made afterwards; the
   interpreter keeps executing the statement it is at, and a ping answers *)

InitSetup ==
    /\ pc = "idle"
    /\ method = ""
    /\ query_type = ""
    /\ given = None
    /\ params = None
    /\ submitted = <<>>
    /\ response = <<"none">>
    /\ result = <<"none">>
    /\ first = NoCall
    /\ wait_pc = "test"
    /\ elapsed = 0
    /\ last_ping = "none"
    /\ query_builder = FALSE
    /\ app = "importing"
    /\ http = <<"none">>

wait_for_elasticsearch == wait_test \/ wait_ping \/ wait_sleep

NextSetup == wait_test \/ wait_ping \/ wait_sleep \/ create_query_builder \/ api_load \/ http_get

SpecSetup == InitSetup /\ [][NextSetup]_vars /\ WF_vars(wait_for_elasticsearch)

---------------------------------------------------------------------------
(* Properties *)

\* the request document of the current call's search
Body == submitted[1].body

\* the keys of the params map the caller built (none for None)
SuppliedKeys == IF given = None THEN {} ELSE DOMAIN given[2]

\* the keyword names the strategy is called with
PassedKeys == IF SuppliedKeys = {} THEN {} ELSE SuppliedKeys \cup {"size"}

IsErrorRecord(r) == r[1] = "return" /\ DOMAIN r[2] = {"error"} /\ r[2]["error"][1] = "str"
IsEnvelope(r) == r[1] = "return" /\ "total_hits" \in DOMAIN r[2]

\* the lambda of the kind cannot be called with the keywords passed
StrategyRejects ==
    \/ \E k \in PassedKeys : k \notin StrategyParams(query_type)
    \/ \E k \in StrategyRequired(query_type) : k \notin PassedKeys

\* the search returned something _format_response cannot read
Unreadable(r) ==
    \/ r = None
    \/ "hits" \notin DOMAIN r[2]
    \/ "took" \notin DOMAIN r[2]
    \/ "total" \notin DOMAIN r[2]["hits"]
    \/ /\ "hits" \in DOMAIN r[2]["hits"]
       /\ \E i \in 1..Len(r[2]["hits"]["hits"][2]) :
             "_source" \notin DOMAIN r[2]["hits"]["hits"][2][i]

\* C1: a build_query call on a supported kind never ends in an exception:
\* it returns, and it returns an ErrorRecord when the strategy cannot be
\* called with the params (and then nothing was searched), when the search
\* raised, and when the response could not be formatted.
C1_NoExceptionEscapes ==
    (pc = "idle" /\ query_type \in QueryTypes) =>
        /\ result[1] = "return"
        /\ StrategyRejects => (IsErrorRecord(result) /\ submitted = <<>>)
        /\ response[1] = "raise" => result = <<"return", [error |-> PyStr(response[3])]>>
        /\ (response[1] = "return" /\ Unreadable(response[2])) => IsErrorRecord(result)

\* a term call without 'field' has returned an ErrorRecord
C1_Witness ==
    /\ pc = "idle"
    /\ query_type = "term"
    /\ SuppliedKeys # {}
    /\ "field" \notin SuppliedKeys
    /\ IsErrorRecord(result)

\* C2: a call with an unregistered kind ends at once in a failure (a raised
\* error or an ErrorRecord) that is no envelope, with no request submitted
\* and no search made.
C2_UnsupportedKindFails ==
    (pc # "called" /\ method # "" /\ query_type \notin QueryTypes) =>
        /\ pc = "idle"
        /\ submitted = <<>>
        /\ response = <<"none">>
        /\ result[1] = "raise" \/ IsErrorRecord(result)
        /\ ~IsEnvelope(result)

\* the kind "nonexistent" has been refused with a ValueError
C2_Witness ==
    /\ pc = "idle"
    /\ query_type = "nonexistent"
    /\ result = <<"raise", "ValueError", "Unsupported query type: nonexistent">>

\* C3: every request submitted carries 'size': the caller's value when the
\* caller supplied one (0 included), the default 10 otherwise.
C3_SizeAlwaysPresent ==
    (submitted # <<>> /\ query_type \in QueryTypes) =>
        /\ "size" \in DOMAIN Body
        /\ Body["size"] = IF "size" \in SuppliedKeys THEN given[2]["size"]
                          ELSE PyInt(DefaultSize)

\* an aggs request went out with the size 0 its caller supplied
C3_Witness ==
    /\ submitted # <<>>
    /\ query_type = "aggs"
    /\ "size" \in SuppliedKeys
    /\ given[2]["size"] = PyInt(0)
    /\ Body["size"] = PyInt(0)

\* the bound map of a range request, under the field the caller named
RangeBounds == Body["query"]["range"][given[2]["field"][2]]

\* C4: the bound map of a range request holds exactly the bounds among gte
\* and lte that the caller supplied with a value other than None, each with
\* that value, so no bound is ever null; filter_by_price_range(200, 400, 5)
\* submits {"size":5,"query":{"range":{"AvgTicketPrice":{"gte":200,"lte":400}}}}.
C4_RangeBounds ==
    /\ (submitted # <<>> /\ query_type = "range") =>
        /\ DOMAIN Body["query"]["range"] = {given[2]["field"][2]}
        /\ DOMAIN RangeBounds =
              {k \in {"gte", "lte"} : k \in SuppliedKeys /\ given[2][k] # None}
        /\ \A k \in DOMAIN RangeBounds :
              RangeBounds[k] = given[2][k] /\ RangeBounds[k] # None
    /\ (submitted # <<>> /\ <<method, query_type, given>> = filter_by_price_range(200, 400, 5)) =>
        Body = [size |-> PyInt(5),
                query |-> [range |-> [AvgTicketPrice |->
                              [gte |-> PyInt(200), lte |-> PyInt(400)]]]]

\* a range request went out with 'gte' alone, its caller having passed lte=None
C4_Witness ==
    /\ submitted # <<>>
    /\ query_type = "range"
    /\ {"gte", "lte"} \subseteq SuppliedKeys
    /\ given[2]["lte"] = None
    /\ RangeBounds = [gte |-> PyInt(200)]

\* C5: the keys of the 'bool' clause are exactly the clause lists among must,
\* must_not, should and filter that the caller supplied other than None, each
\* list as supplied (an empty list included).
C5_BoolClauses ==
    (submitted # <<>> /\ query_type = "bool") =>
        /\ DOMAIN Body["query"]["bool"] =
              {k \in {"must", "must_not", "should", "filter"} :
                  k \in SuppliedKeys /\ given[2][k] # None}
        /\ \A k \in DOMAIN Body["query"]["bool"] : Body["query"]["bool"][k] = given[2][k]

\* a bool request went out with 'should' alone, and that an empty list
C5_Witness ==
    /\ submitted # <<>>
    /\ query_type = "bool"
    /\ Body["query"]["bool"] = [should |-> PyList(<<>>)]

\* the body of the response the search returned
ResponseDict == response[2][2]

\* C6: the envelope has 'aggregations' exactly when the response has, and
\* then the same block; a response with no hits and no aggregations gives
\* exactly {total_hits: 0, took_ms: took, hits: []}.
C6_AggregationsIff ==
    IsEnvelope(result) =>
        /\ "aggregations" \in DOMAIN result[2] <=> "aggregations" \in DOMAIN ResponseDict
        /\ "aggregations" \in DOMAIN ResponseDict =>
              result[2]["aggregations"] = ResponseDict["aggregations"]
        /\ ( /\ ResponseDict["hits"]["total"]["value"] = PyInt(0)
             /\ "hits" \in DOMAIN ResponseDict["hits"] => ResponseDict["hits"]["hits"] = PyList(<<>>)
             /\ "aggregations" \notin DOMAIN ResponseDict ) =>
              result[2] = [total_hits |-> PyInt(0), took_ms |-> ResponseDict["took"],
                           hits |-> PyList(<<>>)]

\* a response with an empty hit list and no aggregations was normalised
C6_Witness ==
    /\ IsEnvelope(result)
    /\ ResponseDict = [took |-> PyInt(7),
                       hits |-> [total |-> [value |-> PyInt(0)], hits |-> PyList(<<>>)]]
    /\ DOMAIN result[2] = {"total_hits", "took_ms", "hits"}

\* C7: a null response from the backend gives the ErrorRecord with the fixed
\* "No response received" text.
C7_NullResponseMessage ==
    (pc = "idle" /\ response = <<"return", None>>) =>
        result = <<"return", [error |-> PyStr("No response received")]>>

\* C8: the envelope's hits are the _source payloads of the backend's hits, as
\* many and in the same order, and none when the hit list is empty or
\* missing; total_hits and took_ms are the backend's total value and took.
C8_HitsInOrder ==
    IsEnvelope(result) =>
        /\ result[2]["total_hits"] = ResponseDict["hits"]["total"]["value"]
        /\ result[2]["took_ms"] = ResponseDict["took"]
        /\ result[2]["hits"][1] = "list"
        /\ IF "hits" \in DOMAIN ResponseDict["hits"]
           THEN /\ Len(result[2]["hits"][2]) = Len(ResponseDict["hits"]["hits"][2])
                /\ \A i \in 1..Len(result[2]["hits"][2]) :
                      result[2]["hits"][2][i] = ResponseDict["hits"]["hits"][2][i]["_source"]
           ELSE result[2]["hits"][2] = <<>>

\* two hits of different carriers came back, and the envelope lists them in order
C8_Witness ==
    /\ IsEnvelope(result)
    /\ result[2]["hits"] = PyList(<<[Carrier |-> PyStr("JetBeats")],
                                    [Carrier |-> PyStr("ES-Air")]>>)

\* C9: a call made again (the same catalog method with the same arguments,
\* or build_query with the same kind and equal params) submits the request
\* the earlier call submitted, to the same index, whatever was called since.
C9_SameCallSameRequest ==
    (pc = "searching" /\ first # NoCall
        /\ method = first[1] /\ query_type = first[2] /\ given = first[3]) =>
        submitted[1] = first[4]

\* get_all_flights, noted earlier, has been called again and is searching
C9_Witness ==
    /\ pc = "searching"
    /\ first # NoCall
    /\ method = "get_all_flights"
    /\ first[1] = "get_all_flights"
    /\ submitted[1] = first[4]

\* C10: avg_price_per_carrier() submits {"size":0, "aggs":{"terms_on_Carrier":
\* {"terms":{"field":"Carrier"}, "aggs":{"avg_value":{"avg":{"field":
\* "AvgTicketPrice"}}}}}}.
C10_AvgPricePerCarrier ==
    (method = "avg_price_per_carrier" /\ pc # "called") =>
        /\ submitted # <<>>
        /\ Body = [size |-> PyInt(0),
                   aggs |-> [terms_on_Carrier |->
                       [terms |-> [field |-> PyStr("Carrier")],
                        aggs |-> [avg_value |->
                            [avg |-> [field |-> PyStr("AvgTicketPrice")]]]]]]

\* C11: filter_by_carrier(c, size=s) submits exactly
\* {"size": s, "query": {"term": {"Carrier": c}}}, to the configured index.
C11_FilterByCarrier ==
    (method = "filter_by_carrier" /\ pc # "called") =>
        /\ Len(submitted) = 1
        /\ \E c \in Carriers, s \in CatalogSizes :
              /\ <<method, query_type, given>> = filter_by_carrier(c, s)
              /\ Body = [size |-> PyInt(s), query |-> [term |-> [Carrier |-> PyStr(c)]]]

\* filter_by_carrier("ES-Air", size=5) has submitted its request
C11_Witness ==
    /\ method = "filter_by_carrier"
    /\ submitted # <<>>
    /\ Body = [size |-> PyInt(5), query |-> [term |-> [Carrier |-> PyStr("ES-Air")]]]

\* C12: delayed_flight_analysis(min_delay) submits a request with a range
\* predicate on FlightDelayMin bounded by min_delay together with an
\* aggregation, and returns the envelope of the backend's response.
C12_DelayAnalysis ==
    (method = "delayed_flight_analysis" /\ pc = "idle") =>
        /\ Len(submitted) = 1
        /\ "query" \in DOMAIN Body
        /\ "range" \in DOMAIN Body["query"]
        /\ "FlightDelayMin" \in DOMAIN Body["query"]["range"]
        /\ Body["query"]["range"]["FlightDelayMin"]["gte"] = given[2]["gte"]
        /\ "aggs" \in DOMAIN Body
        /\ (response[1] = "return" /\ ~Unreadable(response[2])) => IsEnvelope(result)

\* the name the aggs strategy gives the aggregation of the current call
AggName == given[2]["aggs_type"][2] \o "_on_" \o given[2]["field"][2]

\* C16: an aggs request on field f carries one aggregation, named
\* "<aggs_type>_on_<f>"; for aggs_type "terms" it is a terms aggregation on
\* f, and for aggs_type "avg" it nests 'avg_value', an avg on f.
C16_AggsRequest ==
    (query_type = "aggs" /\ submitted # <<>>) =>
        /\ DOMAIN Body["aggs"] = {AggName}
        /\ given[2]["aggs_type"] = PyStr("terms") =>
              Body["aggs"][AggName]["terms"] = [field |-> given[2]["field"]]
        /\ given[2]["aggs_type"] = PyStr("avg") =>
              Body["aggs"][AggName]["aggs"] =
                  [avg_value |-> [avg |-> [field |-> given[2]["field"]]]]

\* total_flight_per_destination has submitted its terms aggregation
C16_Witness ==
    /\ method = "total_flight_per_destination"
    /\ submitted # <<>>
    /\ DOMAIN Body["aggs"] = {"terms_on_DestCountry"}
    /\ Body["aggs"]["terms_on_DestCountry"]["terms"] = [field |-> PyStr("DestCountry")]

\* the size a call works with: the supplied one, or 10
EffectiveSize ==
    IF "size" \in DOMAIN given[2] THEN given[2]["size"] ELSE PyInt(DefaultSize)

\* the caller's map holds the effective size and, elsewhere, what it held
OnlySizeChanged ==
    /\ params[1] = "dict"
    /\ DOMAIN params[2] = DOMAIN given[2] \cup {"size"}
    /\ params[2]["size"] = EffectiveSize
    /\ \A k \in DOMAIN given[2] \ {"size"} : params[2][k] = given[2][k]

\* a call without params went to its strategy with no arguments: the
\* request is the one of the lambda's defaults, or the lambda's complaint
\* about its first missing argument came back
CalledBare ==
    IF StrategyRequired(query_type) = {}
    THEN /\ submitted # <<>>
         /\ Body = query_strategies(query_type, StrategyDefaults(query_type))
    ELSE /\ submitted = <<>>
         /\ result = <<"return", [error |-> PyStr(CallError(query_type, EmptyDict))]>>

\* C17, as stated: after any call with a non-empty params map, the map
\* holds 'size' equal to the effective size and is otherwise unchanged; a
\* null or empty map is left untouched.
C17_SizeAfterAnyCall ==
    pc # "called" =>
        /\ Truthy(given) => OnlySizeChanged
        /\ ~Truthy(given) => params = given

\* C17: after a call on a supported kind with a non-empty params map, the
\* map holds 'size' equal to the effective size and every other key and
\* value is unchanged; a null or empty map is left untouched and the
\* strategy is invoked with no arguments; a call on an unsupported kind
\* leaves the map untouched.
C17_ParamsFrame ==
    pc # "called" =>
        /\ (Truthy(given) /\ query_type \in QueryTypes) => OnlySizeChanged
        /\ ~Truthy(given) => params = given
        /\ (~Truthy(given) /\ query_type \in QueryTypes) => CalledBare
        /\ query_type \notin QueryTypes => params = given

\* a call on a supported kind whose params had no 'size' has put 10 there
C17_Witness ==
    /\ pc # "called"
    /\ query_type \in QueryTypes
    /\ Truthy(given)
    /\ "size" \notin DOMAIN given[2]
    /\ params[2]["size"] = PyInt(10)
    /\ params # given

\* a call on a supported kind has been made and is searching or has returned
SupportedCall == method # "" /\ pc # "called" /\ query_type \in QueryTypes

\* C14, as stated: every build_query call with a supported kind issues one
\* backend search (read on the calls made to build_query itself).
C14_OneSearchEach ==
    (SupportedCall /\ method = "build_query" /\ pc = "idle") => Len(submitted) = 1

\* the searches of a call: never more than one; one, on the configured
\* index, when the lambda of the kind takes the params, and none when it
\* does not; an envelope comes only from the call's own answered search
C14_Searches ==
    /\ Len(submitted) <= 1
    /\ (SupportedCall /\ ~StrategyRejects) =>
          (Len(submitted) = 1 /\ submitted[1].index = "kibana_sample_data_flights")
    /\ (SupportedCall /\ StrategyRejects) => submitted = <<>>
    /\ IsEnvelope(result) =>
          (pc = "idle" /\ Len(submitted) = 1 /\ response[1] = "return")

\* what follows a search is the return of the call that issued it
C14_Blocking ==
    pc = "searching" =>
        (pc' = "idle" /\ UNCHANGED <<method, query_type, given, params, submitted>>)

\* C14: every build_query call with a supported kind issues at most one
\* backend search, and exactly one, against the configured index name,
\* when its strategy accepts the params; it returns its result before the
\* next call begins, and returns an envelope only after its own search
\* has completed.
C14_OneRoundTrip == [](C14_Searches) /\ [][C14_Blocking]_vars

\* a later call than the one noted has searched once and returned an envelope
C14_Witness ==
    /\ first # NoCall
    /\ <<first[1], first[2], first[3]>> # <<method, query_type, given>>
    /\ pc = "idle"
    /\ Len(submitted) = 1
    /\ submitted[1].index = index_name
    /\ IsEnvelope(result)

\* where the wait loop stands once it is over
C15_Outcome ==
    /\ wait_pc = "returned" => last_ping = "true"
    /\ wait_pc = "raised" => (elapsed >= 300 /\ last_ping # "true")
    /\ query_builder => wait_pc = "returned"

\* the steps of the wait loop
C15_Steps ==
    /\ (wait_pc = "ping" /\ last_ping' = "true") => wait_pc' = "returned"
    /\ (wait_pc = "ping" /\ last_ping' \in {"false", "raise"}) => wait_pc' = "sleep"
    /\ (wait_pc = "sleep" /\ wait_pc' # "sleep") =>
          (elapsed' = elapsed + 5 /\ wait_pc' = "test")
    /\ (wait_pc = "test" /\ wait_pc' # "test") =>
          wait_pc' = IF elapsed >= 300 THEN "raised" ELSE "ping"
    /\ wait_pc \in {"returned", "raised"} => UNCHANGED <<wait_pc, elapsed, last_ping>>

\* C15: _wait_for_elasticsearch always terminates; it returns True at the
\* first ping that succeeds, sleeps 5 seconds after a false ping and after
\* a ping exception, and raises TimeoutError once the elapsed time has
\* reached 300 s without a successful ping; it never returns without a
\* successful ping, and the query builder is created only after it returned.
C15_WaitLoop ==
    /\ [](C15_Outcome)
    /\ [][C15_Steps]_vars
    /\ <>(wait_pc \in {"returned", "raised"})

\* the loop has given up: 300 s and more have gone by and no ping succeeded
C15_Witness ==
    /\ wait_pc = "raised"
    /\ elapsed >= 300
    /\ last_ping \in {"false", "raise"}
    /\ ~query_builder

\* C13: a request to /flights/delay-analysis is answered with the envelope
\* (status 200) when the query succeeds and with status 400 and an
\* ErrorRecord when it fails; an ErrorRecord never comes with status 200
\* (read on the requests made after a setup that found the backend up).
C13_EndpointAnswers ==
    (http # <<"none">> /\ wait_pc = "returned") =>
        /\ http[1] = "response"
        /\ \/ http[2] = 200 /\ "total_hits" \in DOMAIN http[3]
           \/ http[2] = 400 /\ DOMAIN http[3] = {"error"}

====
